---- MODULE Spec2Model ----
(***************************************************************************)
(* update-channel-single.py: the line-oriented rewrite of a bundle         *)
(* document (modify_channel), the branch -> channel resolution it uses     *)
(* (_get_channel), the write-temp-then-rename persistence of the result,   *)
(* the loading of the lp-builder-config documents                          *)
(* (parse_lp_builder_config_file) and the run of main() over the bundle    *)
(* documents of a charm.                                                   *)
(*                                                                         *)
(* A line of a bundle document is a record                                 *)
(*   [kind, ind, prefix, name, val]                                        *)
(* kind "charm"   : <ind spaces>charm: <prefix><name>\n                    *)
(* kind "channel" : <ind spaces>channel: <val>\n                           *)
(* kind "other"   : <ind spaces> followed by text that none of the three   *)
(*                  regular expressions matches (ind = 0 includes the      *)
(*                  blank line).                                           *)
(* Leading whitespace is spaces only, every line ends with a newline and   *)
(* carries no trailing comment.                                            *)
(***************************************************************************)
EXTENDS Integers, Sequences, FiniteSets, TLC

\* ------------------------------------------------------------------ bounds
MaxLen == 3
MaxTracks == 2
MaxBranches == 2
MaxIgnores == 2
MaxProjects == 2
MaxConfigFiles == 2
MaxBundles == 2

\* ------------------------------------------------------------ vocabulary
None == "<None>"
NoIndent == -1

Indents == {0, 1, 2}
Names == {"keystone", "vault"}
CH == "ch:"
CS_OC == "cs:~openstack-charmers/"
CS_NEXT == "cs:~openstack-charmers-next/"
CS_ANY == "cs:~gnuoy/"
Prefixes == {CH, CS_OC, CS_ANY}
InputChannels == {"old"}

CharmLine(i, p, n) == [kind |-> "charm", ind |-> i, prefix |-> p, name |-> n, val |-> None]
ChannelLine(i, v) == [kind |-> "channel", ind |-> i, prefix |-> None, name |-> None, val |-> v]
OtherLine(i) == [kind |-> "other", ind |-> i, prefix |-> None, name |-> None, val |-> None]

\* charm: lines at indent 1 with every prefix and name, and one at indent 0
\* (the empty indent string, which every line starts with)
CharmLines ==
    {CharmLine(1, p, n) : p \in Prefixes, n \in Names} \cup {CharmLine(0, CH, "keystone")}

Lines ==
    CharmLines
    \cup {ChannelLine(i, v) : i \in Indents, v \in InputChannels}
    \cup {OtherLine(i) : i \in Indents}

RECURSIVE SeqsUpTo(_, _)
SeqsUpTo(S, n) ==
    IF n = 0 THEN {<<>>}
    ELSE LET shorter == SeqsUpTo(S, n - 1)
         IN shorter \cup {Append(s, x) : s \in {t \in shorter : Len(t) = n - 1}, x \in S}

Documents == SeqsUpTo(Lines, MaxLen)

\* --------------------------------------------------- strings of the config
\* The characters of the track/channel strings and ignore prefixes the
\* model uses, in units fine enough for str.startswith.
Spell(s) ==
    CASE s = "" -> <<>>
      [] s = "latest" -> <<"latest">>
      [] s = "latest/edge" -> <<"latest", "/", "edge">>
      [] s = "yoga" -> <<"yoga">>
      [] s = "yoga/stable" -> <<"yoga", "/", "stable">>
      [] OTHER -> <<s>>

\* str.startswith
startswith(s, p) ==
    /\ Len(Spell(p)) <= Len(Spell(s))
    /\ SubSeq(Spell(s), 1, Len(Spell(p))) = Spell(p)

Branches == {"master", "stable/yoga"}
Tracks == {"latest/edge", "yoga/stable"}
Ignores == {"", "latest", "yoga/stable"}

\* ------------------------------------------------------------ _get_channel
\* for ignore in ignore_tracks: if track.startswith(ignore): break / else
ignored(track, ignore_tracks) ==
    \E k \in 1..Len(ignore_tracks) : startswith(track, ignore_tracks[k])

\* scan_tracks that gives up when the first track of the list is ignored
scan_tracks_first_only(tracks, ignore_tracks, k) ==
    IF k > Len(tracks) THEN None
    ELSE IF ignore_tracks = <<>> THEN tracks[k]
    ELSE IF ignored(tracks[k], ignore_tracks) THEN None
    ELSE tracks[k]

\* for track in lp_config[_charm][branch]: the first track returned, or None
\* when the loop runs off the end of the list.
RECURSIVE scan_tracks(_, _, _)
scan_tracks(tracks, ignore_tracks, k) ==
    IF k > Len(tracks) THEN None
    ELSE IF ignore_tracks = <<>> THEN tracks[k]
    ELSE IF ignored(tracks[k], ignore_tracks)
         THEN scan_tracks(tracks, ignore_tracks, k + 1)
         ELSE tracks[k]

\* scan_branches that tries the first requested branch only
scan_branches_first_only(P, charm, b) ==
    IF b > Len(P.branches) THEN None
    ELSE IF charm \in DOMAIN P.lp_config /\ P.branches[b] \in DOMAIN P.lp_config[charm]
         THEN scan_tracks(P.lp_config[charm][P.branches[b]], P.ignore_tracks, 1)
         ELSE None

\* for branch in branches: ... except (KeyError, IndexError): pass
RECURSIVE scan_branches(_, _, _)
scan_branches(P, charm, b) ==
    IF b > Len(P.branches) THEN None
    ELSE LET branch == P.branches[b]
             found == IF charm \in DOMAIN P.lp_config
                         /\ branch \in DOMAIN P.lp_config[charm]
                      THEN scan_tracks(P.lp_config[charm][branch], P.ignore_tracks, 1)
                      ELSE None
         IN IF found # None THEN found ELSE scan_branches(P, charm, b + 1)

get_channel(P, charm) ==
    IF charm = None THEN None
    ELSE IF P.branches = <<>> THEN P.channel
    ELSE scan_branches(P, charm, 1)

\* ---------------------------------------------------------------- matchers
\* CHARM_MATCH: group 1 is line.ind, group 2 line.prefix, group 3 line.name
CHARM_MATCH(line) == line.kind = "charm" /\ line.prefix \in {CH, CS_OC, CS_NEXT}

\* ANY_CHARM_MATCH: the prefix is (cs:.*/)
ANY_CHARM_MATCH(line) == line.kind = "charm" /\ line.prefix \in {CS_OC, CS_NEXT, CS_ANY}

\* CHANNEL_MATCH: group 1 is line.ind, group 2 line.val
CHANNEL_MATCH(line) == line.kind = "channel"

\* line.startswith(indent), indent a string of spaces
line_startswith(line, indent) == line.ind >= indent

\* format_channel that leaves the indent out
format_channel_flush_left(indent, channel) == ChannelLine(0, channel)

\* "{}channel: {}\n".format(indent, _channel)
format_channel(indent, channel) == ChannelLine(indent, channel)

\* line.replace(charm_prefix, 'ch:')
replace_prefix(line) == [line EXCEPT !.prefix = CH]

\* ---------------------------------------------------------- modify_channel
valid_charms(P) == IF P.branches # <<>> THEN DOMAIN P.lp_config ELSE P.charms

\* channel is not None or branches
wants_channel(P) == P.channel # None \/ P.branches # <<>>

\* The state of the for-loop: indent, current_charm, new_lines, and two
\* history fields: src[j] tells where new_lines[j] comes from, opener is the
\* index of the charm: line that set indent (0 when indent is None).
LoopStart ==
    [indent |-> NoIndent, current_charm |-> None, new_lines |-> <<>>,
     src |-> <<>>, opener |-> 0]

\* emit_and_close that resets indent and leaves current_charm as it is
emit_and_close_keeps_charm(P, st, how, k) ==
    LET c == get_channel(P, st.current_charm)
        add == wants_channel(P) /\ c # None
    IN [indent |-> NoIndent, current_charm |-> st.current_charm,
        new_lines |-> IF add THEN Append(st.new_lines, format_channel(st.indent, c))
                      ELSE st.new_lines,
        src |-> IF add THEN Append(st.src, [how |-> how, at |-> k, ref |-> st.opener])
                ELSE st.src,
        opener |-> 0]

\* new_lines.append("{}channel: {}\n".format(indent, _channel)) under
\* "if channel is not None or branches: ... if _channel is not None:",
\* then indent = None; current_charm = None
emit_and_close(P, st, how, k) ==
    LET c == get_channel(P, st.current_charm)
        add == wants_channel(P) /\ c # None
    IN [indent |-> NoIndent, current_charm |-> None,
        new_lines |-> IF add THEN Append(st.new_lines, format_channel(st.indent, c))
                      ELSE st.new_lines,
        src |-> IF add THEN Append(st.src, [how |-> how, at |-> k, ref |-> st.opener])
                ELSE st.src,
        opener |-> 0]

\* search_channel without the "continue" that drops the replaced line
search_channel_no_continue(P, st, line, k) ==
    IF st.indent = NoIndent THEN [st |-> st, consumed |-> FALSE]
    ELSE IF line_startswith(line, st.indent)
         THEN IF CHANNEL_MATCH(line) /\ line.ind = st.indent
              THEN [st |-> emit_and_close(P, st, "replace", k), consumed |-> FALSE]
              ELSE [st |-> st, consumed |-> FALSE]
         ELSE [st |-> emit_and_close(P, st, "add", k), consumed |-> FALSE]

\* the "if indent is not None:" part of the loop body; consumed is TRUE when
\* the body ends with "continue"
search_channel(P, st, line, k) ==
    IF st.indent = NoIndent THEN [st |-> st, consumed |-> FALSE]
    ELSE IF line_startswith(line, st.indent)
         THEN IF CHANNEL_MATCH(line) /\ line.ind = st.indent
              THEN [st |-> emit_and_close(P, st, "replace", k), consumed |-> TRUE]
              ELSE [st |-> st, consumed |-> FALSE]
         ELSE [st |-> emit_and_close(P, st, "add", k), consumed |-> FALSE]

\* search_charm that rewrites the prefix whatever ensure_charmhub_prefix is
search_charm_always_ch(P, st, line, k) ==
    LET valid == CHARM_MATCH(line) /\ line.name \in valid_charms(P)
        out == IF CHARM_MATCH(line)
               THEN IF valid /\ line.prefix # CH THEN replace_prefix(line) ELSE line
               ELSE IF ANY_CHARM_MATCH(line) THEN replace_prefix(line) ELSE line
    IN [indent |-> IF valid THEN line.ind ELSE st.indent,
        current_charm |-> IF valid THEN line.name ELSE st.current_charm,
        new_lines |-> Append(st.new_lines, out),
        src |-> Append(st.src, [how |-> "copy", at |-> k, ref |-> 0]),
        opener |-> IF valid THEN k ELSE st.opener]

\* search_charm without the "if match[3] in valid_charms" test
search_charm_any_name(P, st, line, k) ==
    LET valid == CHARM_MATCH(line)
        out == IF CHARM_MATCH(line)
               THEN IF valid /\ P.ensure_charmhub_prefix /\ line.prefix # CH
                    THEN replace_prefix(line) ELSE line
               ELSE IF ANY_CHARM_MATCH(line) /\ P.ensure_charmhub_prefix
                    THEN replace_prefix(line) ELSE line
    IN [indent |-> IF valid THEN line.ind ELSE st.indent,
        current_charm |-> IF valid THEN line.name ELSE st.current_charm,
        new_lines |-> Append(st.new_lines, out),
        src |-> Append(st.src, [how |-> "copy", at |-> k, ref |-> 0]),
        opener |-> IF valid THEN k ELSE st.opener]

\* search_charm in which a line that only ANY_CHARM_MATCH matches opens a
\* block too
search_charm_generic_opens(P, st, line, k) ==
    LET valid == /\ CHARM_MATCH(line) \/ ANY_CHARM_MATCH(line)
                 /\ line.name \in valid_charms(P)
        out == IF CHARM_MATCH(line)
               THEN IF valid /\ P.ensure_charmhub_prefix /\ line.prefix # CH
                    THEN replace_prefix(line) ELSE line
               ELSE IF ANY_CHARM_MATCH(line) /\ P.ensure_charmhub_prefix
                    THEN replace_prefix(line) ELSE line
    IN [indent |-> IF valid THEN line.ind ELSE st.indent,
        current_charm |-> IF valid THEN line.name ELSE st.current_charm,
        new_lines |-> Append(st.new_lines, out),
        src |-> Append(st.src, [how |-> "copy", at |-> k, ref |-> 0]),
        opener |-> IF valid THEN k ELSE st.opener]

\* the charm: matching part of the loop body and new_lines.append(line)
search_charm(P, st, line, k) ==
    LET valid == CHARM_MATCH(line) /\ line.name \in valid_charms(P)
        out == IF CHARM_MATCH(line)
               THEN IF valid /\ P.ensure_charmhub_prefix /\ line.prefix # CH
                    THEN replace_prefix(line) ELSE line
               ELSE IF ANY_CHARM_MATCH(line) /\ P.ensure_charmhub_prefix
                    THEN replace_prefix(line) ELSE line
    IN [indent |-> IF valid THEN line.ind ELSE st.indent,
        current_charm |-> IF valid THEN line.name ELSE st.current_charm,
        new_lines |-> Append(st.new_lines, out),
        src |-> Append(st.src, [how |-> "copy", at |-> k, ref |-> 0]),
        opener |-> IF valid THEN k ELSE st.opener]

\* loop_body that adds the channel: line of a block that has ended after the
\* line that ended it
loop_body_channel_after(P, st, line, k) ==
    LET s1 == search_channel(P, st, line, k)
        ended == st.indent # NoIndent /\ ~line_startswith(line, st.indent)
        closed == [st EXCEPT !.indent = NoIndent, !.current_charm = None, !.opener = 0]
        s2 == search_charm(P, closed, line, k)
        s3 == emit_and_close(P, [s2 EXCEPT !.indent = st.indent,
                                           !.current_charm = st.current_charm,
                                           !.opener = st.opener], "add", k)
    IN IF s1.consumed THEN s1.st
       ELSE IF ended
            THEN [s3 EXCEPT !.indent = s2.indent, !.current_charm = s2.current_charm,
                            !.opener = s2.opener]
            ELSE search_charm(P, s1.st, line, k)

\* one iteration of "for line in file_lines:"
loop_body(P, st, line, k) ==
    LET s1 == search_channel(P, st, line, k)
    IN IF s1.consumed THEN s1.st ELSE search_charm(P, s1.st, line, k)

\* after_loop without the block that is still open at the end of the file
after_loop_forgotten(P, st, k) == st

\* after the loop: "if indent is not None and (channel is not None or
\* branches):"
after_loop(P, st, k) ==
    IF st.indent # NoIndent THEN [emit_and_close(P, st, "add", k) EXCEPT
                                    !.indent = st.indent,
                                    !.current_charm = st.current_charm,
                                    !.opener = st.opener]
    ELSE st

\* the whole pass over file_lines, as a function of its input
RECURSIVE run_loop(_, _, _, _)
run_loop(P, st, lines, k) ==
    IF k > Len(lines) THEN after_loop(P, st, k)
    ELSE run_loop(P, loop_body(P, st, lines[k], k), lines, k + 1)

rewrite(P, lines) == run_loop(P, LoopStart, lines, 1).new_lines

\* the loop state once the first n lines have been processed
RECURSIVE state_after(_, _, _)
state_after(P, lines, n) ==
    IF n = 0 THEN LoopStart
    ELSE loop_body(P, state_after(P, lines, n - 1), lines[n], n)

\* ------------------------------------------------------------------- state
VARIABLES
    charms, lp_config, channel, branches, ensure_charmhub_prefix, ignore_tracks,
    bundle,         \* the lines stored at bundle_filename
    new_file,       \* the file at new_file_name: [exists, lines]
    original,       \* history: the lines at bundle_filename when the run began
    file_lines, i, indent, current_charm, new_lines,
    src, opener,    \* history fields of the loop state (see LoopStart)
    resolved,       \* the last result of _get_channel called on its own
    names_ok,       \* the two charm name files can be opened and read
    config_files,   \* the documents of LP_DIR.glob('*.yaml'), in glob order
    cfg_i,          \* the index of the next config file to parse
    disk,           \* path -> lines of the bundle documents found
    disk0,          \* history: disk when the run began
    bundle_paths,   \* the list of paths main() passes to update_bundles
    path_i,         \* how many paths update_bundles has taken from the list
    calls,          \* history: path -> number of modify_channel calls
    pc

args == <<charms, lp_config, channel, branches, ensure_charmhub_prefix, ignore_tracks>>
files == <<bundle, new_file, original>>
loop == <<file_lines, i, indent, current_charm, new_lines, src, opener>>
run == <<names_ok, config_files, cfg_i, disk, disk0, bundle_paths, path_i, calls>>
vars == <<args, files, loop, resolved, run, pc>>

\* the parameters of modify_channel as one value
P == [charms |-> charms, lp_config |-> lp_config, channel |-> channel,
      branches |-> branches, ensure_charmhub_prefix |-> ensure_charmhub_prefix,
      ignore_tracks |-> ignore_tracks]

st == [indent |-> indent, current_charm |-> current_charm, new_lines |-> new_lines,
       src |-> src, opener |-> opener]

NoFile == [exists |-> FALSE, lines |-> <<>>]
NotCalled == [called |-> FALSE, charm |-> None, result |-> None]

\* -------------------------------------------------------------- parameters
Registry == {"keystone"}
LpOne == ("keystone" :> ("stable/yoga" :> <<"yoga/stable">>))
LpTwo == LpOne @@ ("vault" :> ("master" :> <<"latest/edge">>))

\* the command lines main() can build: --channel, --remove-channel, --branch
\* (with --ignore-track in the last one: vault's only track is ignored)
Modes ==
    {[channel |-> "candidate", branches |-> <<>>, lp_config |-> LpTwo,
      ignore_tracks |-> <<>>],
     [channel |-> None, branches |-> <<>>, lp_config |-> LpTwo,
      ignore_tracks |-> <<>>],
     [channel |-> None, branches |-> <<"stable/yoga">>, lp_config |-> LpOne,
      ignore_tracks |-> <<>>],
     [channel |-> None, branches |-> <<"stable/yoga">>, lp_config |-> LpTwo,
      ignore_tracks |-> <<>>],
     [channel |-> None, branches |-> <<"stable/yoga", "master">>, lp_config |-> LpTwo,
      ignore_tracks |-> <<"latest">>]}

SetLoop(s, k) ==
    /\ indent' = s.indent
    /\ current_charm' = s.current_charm
    /\ new_lines' = s.new_lines
    /\ src' = s.src
    /\ opener' = s.opener
    /\ i' = k

\* modify_channel or _get_channel on its own: nothing of main() is in play
NoRun ==
    /\ names_ok = TRUE
    /\ config_files = <<>>
    /\ cfg_i = 0
    /\ disk = <<>>
    /\ disk0 = <<>>
    /\ bundle_paths = <<>>
    /\ path_i = 0
    /\ calls = <<>>

InitLoop ==
    /\ file_lines = <<>>
    /\ i = 0
    /\ indent = NoIndent
    /\ current_charm = None
    /\ new_lines = <<>>
    /\ src = <<>>
    /\ opener = 0

Init ==
    /\ charms = Registry
    /\ \E m \in Modes :
        /\ channel = m.channel
        /\ branches = m.branches
        /\ lp_config = m.lp_config
        /\ ignore_tracks = m.ignore_tracks
    /\ ensure_charmhub_prefix \in BOOLEAN
    /\ bundle \in Documents
    /\ original = bundle
    /\ new_file = NoFile
    /\ InitLoop
    /\ resolved = NotCalled
    /\ NoRun
    /\ pc = "start"

\* ----------------------------------------------------------------- actions
\* with open(bundle_filename) as f: file_lines = f.readlines(); new_lines = []
ReadFile ==
    /\ pc = "start"
    /\ file_lines' = bundle
    /\ SetLoop(LoopStart, 1)
    /\ pc' = "loop"
    /\ UNCHANGED <<args, run, files, resolved>>

\* an iteration that ends in "continue": the line is the open block's
\* channel: line
ForLineChannel ==
    /\ pc = "loop"
    /\ i <= Len(file_lines)
    /\ search_channel(P, st, file_lines[i], i).consumed
    /\ SetLoop(loop_body(P, st, file_lines[i], i), i + 1)
    /\ UNCHANGED <<args, run, files, file_lines, resolved, pc>>

\* an iteration that reaches new_lines.append(line)
ForLineAppend ==
    /\ pc = "loop"
    /\ i <= Len(file_lines)
    /\ ~search_channel(P, st, file_lines[i], i).consumed
    /\ SetLoop(loop_body(P, st, file_lines[i], i), i + 1)
    /\ UNCHANGED <<args, run, files, file_lines, resolved, pc>>

\* the code after the loop, up to the open of the new file
AfterLoop ==
    /\ pc = "loop"
    /\ i > Len(file_lines)
    /\ SetLoop(after_loop(P, st, i), i)
    /\ pc' = "open"
    /\ UNCHANGED <<args, run, files, file_lines, resolved>>

\* open(bundle_filename, "wt"): the rewrite written over the bundle itself
OpenInPlace ==
    /\ pc = "open"
    /\ bundle' = <<>>
    /\ new_file' = [exists |-> TRUE, lines |-> <<>>]
    /\ pc' = "writelines"
    /\ UNCHANGED <<args, run, original, loop, resolved>>

\* open(new_file_name, "wt")
OpenNewFile ==
    /\ pc = "open"
    /\ new_file' = [exists |-> TRUE, lines |-> <<>>]
    /\ pc' = "writelines"
    /\ UNCHANGED <<args, run, bundle, original, loop, resolved>>

\* f.writelines(new_lines) and the close of the with block
WriteLines ==
    /\ pc = "writelines"
    /\ new_file' = [exists |-> TRUE, lines |-> new_lines]
    /\ pc' = "rename"
    /\ UNCHANGED <<args, run, bundle, original, loop, resolved>>

\* os.rename(new_file_name, bundle_filename)
Rename ==
    /\ pc = "rename"
    /\ bundle' = new_file.lines
    /\ new_file' = NoFile
    /\ pc' = "done"
    /\ UNCHANGED <<args, run, original, loop, resolved>>

Next ==
    \/ ReadFile
    \/ ForLineChannel
    \/ ForLineAppend
    \/ AfterLoop
    \/ OpenNewFile
    \/ WriteLines
    \/ Rename

Spec == Init /\ [][Next]_vars

\* ------------------------------------------ the run with a crash at any step
\* The process dies: its memory is lost, the files stay as they are.  A crash
\* inside f.writelines leaves any prefix of new_lines in the new file.
Crash ==
    /\ pc \notin {"crashed", "resolve", "exit", "aborted"}
    /\ pc' = "crashed"
    /\ IF pc = "writelines"
       THEN \E n \in 0..Len(new_lines) :
                new_file' = [exists |-> TRUE, lines |-> SubSeq(new_lines, 1, n)]
       ELSE new_file' = new_file
    /\ file_lines' = <<>>
    /\ SetLoop(LoopStart, 0)
    /\ UNCHANGED <<args, run, bundle, original, resolved>>

NextCrash ==
    \/ Next
    \/ Crash

SpecCrash == Init /\ [][NextCrash]_vars

\* ------------------------------------------------ _get_channel on its own
TrackLists == SeqsUpTo(Tracks, MaxTracks)

\* {branch: [track, ...]} for every set of branches
BranchMaps == UNION {[D -> TrackLists] : D \in SUBSET Branches}

\* lp_config without the charm, and with every branch map for it
LpConfigs == {<<>>} \cup {("keystone" :> bm) : bm \in BranchMaps}

InitResolve ==
    /\ charms = Registry
    /\ lp_config \in LpConfigs
    /\ branches \in SeqsUpTo(Branches, MaxBranches)
    /\ channel \in IF branches = <<>> THEN {None, "candidate"} ELSE {None}
    /\ ignore_tracks \in SeqsUpTo(Ignores, MaxIgnores)
    /\ ensure_charmhub_prefix = FALSE
    /\ bundle = <<>>
    /\ original = <<>>
    /\ new_file = NoFile
    /\ InitLoop
    /\ resolved = NotCalled
    /\ NoRun
    /\ pc = "resolve"

\* _channel = _get_channel(current_charm)
CallGetChannel ==
    /\ pc = "resolve"
    /\ \E c \in Names \cup {None} :
        resolved' = [called |-> TRUE, charm |-> c, result |-> get_channel(P, c)]
    /\ UNCHANGED <<args, run, files, loop, pc>>

NextResolve == CallGetChannel

SpecResolve == InitResolve /\ [][NextResolve]_vars

\* ------------------------------------------- parse_lp_builder_config_file
\* What yaml.safe_load returns is a dictionary, here a function from its keys;
\* a key the dictionary lacks is outside the function's domain, and reading
\* it raises KeyError.
EmptyDict == <<>>

\* a branch's entry, with and without the 'channels' key
RawEntries == {EmptyDict} \cup {("channels" :> <<t>>) : t \in Tracks}

\* a 'branches' dictionary
RawBranchMaps == {(b :> e) : b \in Branches, e \in RawEntries}

\* an item of the 'projects' list, with and without 'charmhub' and 'branches'
RawProjects ==
    {c @@ b : c \in {EmptyDict} \cup {("charmhub" :> x) : x \in Names},
              b \in {EmptyDict} \cup {("branches" :> m) : m \in RawBranchMaps}}

\* a config document, with and without 'defaults' and 'projects'
RawConfigs ==
    {d @@ ps : d \in {EmptyDict} \cup {("defaults" :> ("branches" :> m)) : m \in RawBranchMaps},
               ps \in {EmptyDict} \cup {("projects" :> q) : q \in SeqsUpTo(RawProjects, MaxProjects)}}

\* {k: v['channels'] for k, v in m.items()} raises no KeyError
has_channels(m) == \A b \in DOMAIN m : "channels" \in DOMAIN m[b]

\* {k: v['channels'] for k, v in m.items()}
channels_of(m) == [b \in DOMAIN m |-> m[b]["channels"]]

\* try: default_branches = {...} except KeyError: default_branches = {}
default_branches(raw_config) ==
    IF /\ "defaults" \in DOMAIN raw_config
       /\ "branches" \in DOMAIN raw_config["defaults"]
       /\ has_channels(raw_config["defaults"]["branches"])
    THEN channels_of(raw_config["defaults"]["branches"])
    ELSE EmptyDict

\* try: branches = {...} except KeyError: branches = default_branches.copy()
project_branches(raw_config, project) ==
    IF "branches" \in DOMAIN project /\ has_channels(project["branches"])
    THEN channels_of(project["branches"])
    ELSE default_branches(raw_config)

\* for project in raw_config['projects']: a project without 'charmhub' raises
\* KeyError at "lp_config[project['charmhub']] = branches", which the outer
\* except catches: the loop is left with what lp_config holds by then
RECURSIVE parse_projects(_, _, _)
parse_projects(raw_config, k, acc) ==
    IF k > Len(raw_config["projects"]) THEN acc
    ELSE LET project == raw_config["projects"][k]
         IN IF "charmhub" \notin DOMAIN project THEN acc
            ELSE parse_projects(raw_config, k + 1,
                    (project["charmhub"] :> project_branches(raw_config, project)) @@ acc)

\* what parse_lp_builder_config_file returns for a document that parses
parse_lp_builder_config_file(raw_config) ==
    IF "projects" \notin DOMAIN raw_config THEN EmptyDict
    ELSE parse_projects(raw_config, 1, EmptyDict)

\* ------------------------------------------------------------------ main()
\* a file of LP_DIR: parses tells whether open and yaml.safe_load succeed
Unparseable == [parses |-> FALSE, raw |-> EmptyDict]
Parsed(raw_config) == [parses |-> TRUE, raw |-> raw_config]

\* keystone with its own branches; vault takes the defaults
ConfigOwn ==
    Parsed("projects" :> <<("charmhub" :> "keystone")
        @@ ("branches" :> ("stable/yoga" :> ("channels" :> <<"yoga/stable">>)))>>)
ConfigDefaults ==
    Parsed(("defaults" :> ("branches" :> ("master" :> ("channels" :> <<"latest/edge">>))))
        @@ ("projects" :> <<("charmhub" :> "vault")>>))
ConfigDocs == {Unparseable, ConfigOwn, ConfigDefaults}

\* the bundle documents of the charm: one that gets a channel: line added
\* (and is left as it is by --remove-channel), one whose channel: line is
\* replaced or dropped
BundleDocs ==
    {<<CharmLine(1, CH, "keystone")>>,
     <<CharmLine(1, CS_OC, "keystone"), ChannelLine(1, "old")>>}

\* the command lines of Modes without --ignore-track, and without the
\* lp_config main() loads itself
MainModes ==
    {[channel |-> m.channel, branches |-> m.branches, ignore_tracks |-> m.ignore_tracks] :
        m \in {x \in Modes : x.ignore_tracks = <<>>}}

\* list(set(...)): every member once, in any order
Perms(S) ==
    {q \in [1..Cardinality(S) -> S] : \A a, b \in 1..Cardinality(S) : a # b => q[a] # q[b]}

\* the positions of the run inside modify_channel
ModifyPcs == {"start", "loop", "open", "writelines", "rename", "done"}

\* the lines stored at path p: modify_channel's bundle_filename is
\* bundle_paths[path_i]
document(p) ==
    IF path_i >= 1 /\ bundle_paths[path_i] = p THEN bundle ELSE disk[p]

env == <<names_ok, config_files, disk0>>

InitMain ==
    /\ charms = {}
    /\ lp_config = EmptyDict
    /\ \E m \in MainModes :
        /\ channel = m.channel
        /\ branches = m.branches
        /\ ignore_tracks = m.ignore_tracks
    /\ ensure_charmhub_prefix = FALSE
    /\ bundle = <<>>
    /\ original = <<>>
    /\ new_file = NoFile
    /\ InitLoop
    /\ resolved = NotCalled
    /\ names_ok \in BOOLEAN
    /\ config_files \in SeqsUpTo(ConfigDocs, MaxConfigFiles)
    /\ cfg_i = 0
    /\ disk \in UNION {[1..k -> BundleDocs] : k \in 0..MaxBundles}
    /\ disk0 = disk
    /\ bundle_paths = <<>>
    /\ path_i = 0
    /\ calls = [p \in DOMAIN disk |-> 0]
    /\ pc = "find"

\* dirs = find_bundles_dirs(charm_dir); bundles = find_bundles_in_dirs(dirs)
FindBundles ==
    /\ pc = "find"
    /\ bundle_paths' \in Perms(DOMAIN disk)
    /\ pc' = "charms"
    /\ UNCHANGED <<args, files, loop, resolved, env, cfg_i, disk, path_i, calls>>

\* charms = get_charms_list(CHARMS_FILE, OPERATOR_CHARMS_FILE)
GetCharmsList ==
    /\ pc = "charms"
    /\ names_ok
    /\ charms' = Registry
    /\ cfg_i' = 1
    /\ pc' = "config"
    /\ UNCHANGED <<lp_config, channel, branches, ensure_charmhub_prefix, ignore_tracks,
                   files, loop, resolved, env, disk, bundle_paths, path_i, calls>>

\* open(charms_file) raises and nothing catches it
GetCharmsListRaises ==
    /\ pc = "charms"
    /\ ~names_ok
    /\ pc' = "aborted"
    /\ UNCHANGED <<args, files, loop, resolved, run>>

\* a config file that fails is logged and the loop goes on to the next one
ConfigFileSkipped ==
    /\ pc = "config"
    /\ cfg_i <= Len(config_files)
    /\ ~config_files[cfg_i].parses
    /\ cfg_i' = cfg_i + 1
    /\ UNCHANGED <<args, files, loop, resolved, env, disk, bundle_paths, path_i, calls, pc>>

\* except Exception: logging.error(...); sys.exit(1)
ConfigFileFails ==
    /\ pc = "config"
    /\ cfg_i <= Len(config_files)
    /\ ~config_files[cfg_i].parses
    /\ pc' = "aborted"
    /\ UNCHANGED <<args, files, loop, resolved, run>>

\* lp_config.update(parse_lp_builder_config_file(config_file))
ParseConfigFile ==
    /\ pc = "config"
    /\ cfg_i <= Len(config_files)
    /\ config_files[cfg_i].parses
    /\ lp_config' = parse_lp_builder_config_file(config_files[cfg_i].raw) @@ lp_config
    /\ cfg_i' = cfg_i + 1
    /\ UNCHANGED <<charms, channel, branches, ensure_charmhub_prefix, ignore_tracks,
                   files, loop, resolved, env, disk, bundle_paths, path_i, calls, pc>>

\* get_lp_builder_config returns; print(dirs, bundles, charms); update_bundles
\* is called
ConfigLoaded ==
    /\ pc = "config"
    /\ cfg_i > Len(config_files)
    /\ pc' = "update"
    /\ UNCHANGED <<args, files, loop, resolved, run>>

\* for path in bundle_paths: modify_channel(charms, lp_config, path, ...)
CallModifyChannel ==
    /\ pc = "update"
    /\ path_i < Len(bundle_paths)
    /\ path_i' = path_i + 1
    /\ bundle' = disk[bundle_paths[path_i + 1]]
    /\ original' = disk[bundle_paths[path_i + 1]]
    /\ calls' = [calls EXCEPT ![bundle_paths[path_i + 1]] = @ + 1]
    /\ pc' = "start"
    /\ UNCHANGED <<args, new_file, loop, resolved, env, cfg_i, disk, bundle_paths>>

\* modify_channel returns to the loop of update_bundles
ReturnFromModify ==
    /\ pc = "done"
    /\ path_i \in 1..Len(bundle_paths)
    /\ disk' = [disk EXCEPT ![bundle_paths[path_i]] = bundle]
    /\ pc' = "update"
    /\ UNCHANGED <<args, files, loop, resolved, env, cfg_i, bundle_paths, path_i, calls>>

\* update_bundles that returns once the first path is done
UpdateDoneAfterFirst ==
    /\ pc = "update"
    /\ path_i >= 1 \/ bundle_paths = <<>>
    /\ pc' = "exit"
    /\ UNCHANGED <<args, files, loop, resolved, run>>

\* the loop of update_bundles is over; logging.info("done.")
UpdateDone ==
    /\ pc = "update"
    /\ path_i >= Len(bundle_paths)
    /\ pc' = "exit"
    /\ UNCHANGED <<args, files, loop, resolved, run>>

\* the steps of the program itself
MainStep ==
    \/ FindBundles
    \/ GetCharmsList
    \/ GetCharmsListRaises
    \/ ConfigFileFails
    \/ ParseConfigFile
    \/ ConfigLoaded
    \/ CallModifyChannel
    \/ Next
    \/ ReturnFromModify
    \/ UpdateDone

NextMain ==
    \/ MainStep
    \/ Crash

SpecMain == InitMain /\ [][NextMain]_vars

\* the process runs on until it ends or dies
SpecMainFair == SpecMain /\ WF_vars(MainStep)

\* ------------------------------- parse_lp_builder_config_file on its own
InitConfig ==
    /\ charms = Registry
    /\ lp_config = EmptyDict
    /\ channel = None
    /\ branches = <<"master">>
    /\ ignore_tracks = <<>>
    /\ ensure_charmhub_prefix = FALSE
    /\ bundle = <<>>
    /\ original = <<>>
    /\ new_file = NoFile
    /\ InitLoop
    /\ resolved = NotCalled
    /\ names_ok = TRUE
    /\ config_files \in {<<Parsed(r)>> : r \in RawConfigs}
    /\ cfg_i = 1
    /\ disk = <<>>
    /\ disk0 = <<>>
    /\ bundle_paths = <<>>
    /\ path_i = 0
    /\ calls = <<>>
    /\ pc = "config"

NextConfig ==
    \/ ParseConfigFile
    \/ ConfigLoaded

SpecConfig == InitConfig /\ [][NextConfig]_vars

\* ------------------------------------------------------------------ claims
\* The run has ended: new_lines is the output of the rewrite of original and
\* has been renamed over the bundle.
Done == pc = "done"

\* a charm: line that opens a block under the parameters Q
Eligible(Q, line) == CHARM_MATCH(line) /\ line.name \in valid_charms(Q)

\* a charm: line that only ANY_CHARM_MATCH matches
GenericOnly(line) == ANY_CHARM_MATCH(line) /\ ~CHARM_MATCH(line)

\* _get_channel gives a channel for every charm that can open a block
AllResolve(Q) == \A c \in valid_charms(Q) : get_channel(Q, c) # None

\* two channel: lines at one indent with nothing between them that ends or
\* reopens a block at that indent
RepeatedChannel(Q, lines) ==
    \E j, k \in 1..Len(lines) :
        /\ j < k
        /\ CHANNEL_MATCH(lines[j]) /\ CHANNEL_MATCH(lines[k])
        /\ lines[j].ind = lines[k].ind
        /\ \A m \in (j + 1)..(k - 1) :
            line_startswith(lines[m], lines[j].ind) /\ ~Eligible(Q, lines[m])

\* the prefix migration turns a line only ANY_CHARM_MATCH matched into one
\* that opens a block
MigratesIntoEligible(Q, lines) ==
    /\ Q.ensure_charmhub_prefix
    /\ \E k \in 1..Len(lines) : GenericOnly(lines[k]) /\ lines[k].name \in valid_charms(Q)

\* C1 (as stated): for every document and every parameter set, rewriting the
\* output of a rewrite again with the same parameters gives the same lines.
C1_Idempotent == Done => rewrite(P, new_lines) = new_lines

\* C1 (amended): the second rewrite gives the same lines as the first when
\* the migration makes no new block-opening line and, if some eligible charm
\* resolves to no channel, the document repeats no channel: line at one
\* indent inside a block.
C1_IdempotentAmended ==
    (/\ Done
     /\ ~MigratesIntoEligible(P, original)
     /\ (AllResolve(P) \/ ~RepeatedChannel(P, original)))
    => rewrite(P, new_lines) = new_lines

\* C1 witness: a finished rewrite inside the amended claim's condition that
\* replaced a channel: line, added one and migrated a prefix.
C1_Witness ==
    /\ Done
    /\ ~MigratesIntoEligible(P, original)
    /\ (AllResolve(P) \/ ~RepeatedChannel(P, original))
    /\ \E j \in 1..Len(src) : src[j].how = "replace"
    /\ \E j \in 1..Len(src) : src[j].how = "add"
    /\ \E j \in 1..Len(src) : src[j].how = "copy" /\ new_lines[j] # original[src[j].at]

\* the final loop state of a rewrite of lines under Q
final(Q, lines) == run_loop(Q, LoopStart, lines, 1)

\* where input line r went in the output of the run that ended in state s
PosOf(s, r) == CHOOSE j \in 1..Len(s.src) : s.src[j].how = "copy" /\ s.src[j].at = r

\* the block anchored at lines[j]: lines[j] and the lines after it up to the
\* first one that does not start with its indent
RECURSIVE BlockEnd(_, _, _)
BlockEnd(lines, j, e) ==
    IF e < Len(lines) /\ line_startswith(lines[e + 1], lines[j].ind)
    THEN BlockEnd(lines, j, e + 1) ELSE e

BlockOf(lines, j) == SubSeq(lines, j, BlockEnd(lines, j, j))

FixedMode(Q) == Q.channel # None /\ Q.branches = <<>>
RemovalOf(Q) == [Q EXCEPT !.channel = None]

\* the block of original[r] after removal and then the fixed-channel rewrite
RoundTripBlock(Q, lines, r) ==
    LET s1 == final(RemovalOf(Q), lines)
        s2 == final(Q, s1.new_lines)
    IN BlockOf(s2.new_lines, PosOf(s2, PosOf(s1, r)))

\* the block of original[r] after the fixed-channel rewrite alone
DirectBlock(r) == BlockOf(new_lines, PosOf(st, r))

\* every channel: line the rewrite replaced was the last line of its block
ReplacedAtBlockEnd ==
    \A j \in 1..Len(src) :
        src[j].how = "replace" =>
            \/ src[j].at = Len(original)
            \/ ~line_startswith(original[src[j].at + 1], original[src[j].at].ind)

\* C2 (as stated): in fixed-channel mode every eligible block is the same,
\* line for line, after removal followed by the fixed-channel rewrite as
\* after the fixed-channel rewrite alone.
C2_RoundTrip ==
    (Done /\ FixedMode(P)) =>
        \A r \in 1..Len(original) :
            Eligible(P, original[r]) => RoundTripBlock(P, original, r) = DirectBlock(r)

\* C2 (amended): the two blocks are the same when every channel: line the
\* fixed-channel rewrite replaces is the last line of its block and the
\* migration makes no new block-opening line.
C2_RoundTripAmended ==
    (Done /\ FixedMode(P) /\ ReplacedAtBlockEnd /\ ~MigratesIntoEligible(P, original)) =>
        \A r \in 1..Len(original) :
            Eligible(P, original[r]) => RoundTripBlock(P, original, r) = DirectBlock(r)

\* C2 witness: a fixed-channel rewrite that replaced the closing channel:
\* line of an eligible block.
C2_Witness ==
    /\ Done /\ FixedMode(P) /\ ReplacedAtBlockEnd /\ ~MigratesIntoEligible(P, original)
    /\ \E j \in 1..Len(src) : src[j].how = "replace"
    /\ \E r \in 1..Len(original) : Eligible(P, original[r])

\* input line r was appended to new_lines (it was not dropped by "continue")
Copied(s, r) == \E j \in 1..Len(s.src) : s.src[j].how = "copy" /\ s.src[j].at = r

\* input line k reached the output unchanged
Verbatim(k) == Copied(st, k) /\ new_lines[PosOf(st, k)] = original[k]

BranchMode(Q) == Q.branches # <<>>

\* the lines after original[r] that belong to its block
InBlock(r) == (r + 1)..BlockEnd(original, r, r)

\* C3 (as stated): in branch mode, when _get_channel returns None for an
\* eligible charm, a channel: line at the charm: line's indent in its block
\* is emitted verbatim.
C3_NullResolutionKeeps ==
    (Done /\ BranchMode(P)) =>
        \A r \in 1..Len(original) :
            (Eligible(P, original[r]) /\ get_channel(P, original[r].name) = None) =>
                \A k \in InBlock(r) :
                    (CHANNEL_MATCH(original[k]) /\ original[k].ind = original[r].ind)
                        => Verbatim(k)

\* a charm: line (either matcher) whose name cannot open a block
Ineligible(Q, line) ==
    /\ CHARM_MATCH(line) \/ ANY_CHARM_MATCH(line)
    /\ line.name \notin valid_charms(Q)

\* the last line of the span of original[r]: the line that ends its block,
\* or the last line of the document
SpanEnd(r) ==
    LET e == BlockEnd(original, r, r) IN IF e < Len(original) THEN e + 1 ELSE e

\* the span of original[r] is in the output line for line, nothing added
SpanUntouched(r) ==
    /\ \A k \in r..SpanEnd(r) : Copied(st, k)
    /\ SubSeq(new_lines, PosOf(st, r), PosOf(st, SpanEnd(r)))
            = SubSeq(original, r, SpanEnd(r))
    /\ BlockEnd(original, r, r) = Len(original)
            => PosOf(st, SpanEnd(r)) = Len(new_lines)

\* every block-opening line before original[r] is followed, at or before
\* original[r], by a line that does not start with its indent, and no line of
\* the block of original[r] opens a block
NoBlockOver(r) ==
    /\ \A q \in 1..(r - 1) :
        Eligible(P, original[q]) =>
            \E m \in (q + 1)..r : ~line_startswith(original[m], original[q].ind)
    /\ \A k \in InBlock(r) : ~Eligible(P, original[k])

\* C4 (as stated): for every charm: line whose name is not eligible, the
\* lines from it through the line that ends its block are emitted unchanged
\* with no channel: line added, replaced or removed, whatever the other
\* parameters and whatever block is open.
C4_Untouched ==
    Done => \A r \in 1..Len(original) : Ineligible(P, original[r]) => SpanUntouched(r)

\* C4 (amended): that holds when ensure_charmhub_prefix is false, every
\* block opened before the charm: line has been ended by a line that does
\* not start with its indent, and no line of the charm: line's block opens a
\* block.
C4_UntouchedAmended ==
    (Done /\ ~ensure_charmhub_prefix) =>
        \A r \in 1..Len(original) :
            (Ineligible(P, original[r]) /\ NoBlockOver(r)) => SpanUntouched(r)

\* C4 witness: an ineligible charm: line that follows an eligible block which
\* got its channel: line, in a run that adds channels.
C4_Witness ==
    /\ Done /\ ~ensure_charmhub_prefix /\ wants_channel(P)
    /\ \E r \in 1..Len(original) :
        /\ Ineligible(P, original[r]) /\ NoBlockOver(r)
        /\ \E j \in 1..Len(src) : src[j].how = "add" /\ src[j].at <= r

\* before input line k the loop searches for the channel: of a block at
\* indent I whose charm resolves to a channel
OpenAt(k, I) ==
    LET s == state_after(P, original, k - 1)
    IN /\ s.indent = I /\ I # NoIndent
       /\ wants_channel(P) /\ get_channel(P, s.current_charm) # None

\* from input line k on, the engine emits a channel: line at indent I
ChannelEmittedFrom(k, I) ==
    \E j \in 1..Len(src) :
        /\ src[j].how \in {"replace", "add"}
        /\ src[j].at >= k
        /\ new_lines[j].ind = I

\* C5 (as stated): while a block is open at indent I and its charm resolves
\* to a channel, a channel: line at another indent is emitted unchanged, is
\* not taken as the block's channel: line, and the block still gets a
\* channel: line at indent I.
C5_NonGreedy ==
    Done => \A k \in 1..Len(original) : \A I \in Indents :
        (OpenAt(k, I) /\ CHANNEL_MATCH(original[k]) /\ original[k].ind # I)
            => Verbatim(k) /\ ChannelEmittedFrom(k, I)

\* C6 (as stated): in removal mode, for every eligible charm: line, a
\* channel: line at its indent in its block is absent from the output, and
\* the output has no channel: line that was not in the input.
RemovalMode(Q) == Q.channel = None /\ Q.branches = <<>>

C6_Removal ==
    (Done /\ RemovalMode(P)) =>
        /\ \A r \in 1..Len(original) :
            Eligible(P, original[r]) =>
                \A k \in InBlock(r) :
                    (CHANNEL_MATCH(original[k]) /\ original[k].ind = original[r].ind)
                        => ~Copied(st, k)
        /\ \A j \in 1..Len(src) : src[j].how = "copy"

\* the candidates of charm c in the order _get_channel meets them
RECURSIVE Candidates(_, _, _)
Candidates(Q, c, b) ==
    IF b > Len(Q.branches) THEN <<>>
    ELSE (IF c \in DOMAIN Q.lp_config /\ Q.branches[b] \in DOMAIN Q.lp_config[c]
          THEN Q.lp_config[c][Q.branches[b]] ELSE <<>>) \o Candidates(Q, c, b + 1)

Qualifies(Q, track) ==
    \A n \in 1..Len(Q.ignore_tracks) : ~startswith(track, Q.ignore_tracks[n])

\* x is the first member of cands that qualifies, or None when none does
FirstQualifying(Q, cands, x) ==
    \/ /\ x = None
       /\ \A n \in 1..Len(cands) : ~Qualifies(Q, cands[n])
    \/ \E n \in 1..Len(cands) :
        /\ x = cands[n]
        /\ Qualifies(Q, cands[n])
        /\ \A m \in 1..(n - 1) : ~Qualifies(Q, cands[m])

FirstIgnored ==
    /\ resolved.called /\ Len(branches) = 1 /\ ignore_tracks # <<>>
    /\ resolved.charm \in DOMAIN lp_config
    /\ branches[1] \in DOMAIN lp_config[resolved.charm]
    /\ lp_config[resolved.charm][branches[1]] # <<>>
    /\ ~Qualifies(P, lp_config[resolved.charm][branches[1]][1])

C9_NoPartialWrite == bundle = original \/ bundle = rewrite(P, original)

\* C9 witness: a crash inside writelines left a proper, non-empty prefix in
\* the new file while the rewrite differs from the original.
C9_Witness ==
    /\ pc = "crashed"
    /\ new_file.exists
    /\ new_file.lines # <<>>
    /\ new_file.lines # rewrite(P, original)
    /\ rewrite(P, original) # original
    /\ bundle = original

\* input line k is the channel: line at the indent of the block that is open
\* when the loop reaches it
Consumed(k) ==
    /\ CHANNEL_MATCH(original[k])
    /\ state_after(P, original, k - 1).indent = original[k].ind

\* the indices of the output lines that are input lines, in output order
CopyAt(j) == src[j].at

\* C10: with ensure_charmhub_prefix false, every input line that is not
\* consumed as an open block's channel: line is in the output exactly once,
\* unchanged and in the input order, and every other output line is a
\* channel: line.
C10_LinesPreserved ==
    (Done /\ ~ensure_charmhub_prefix) =>
        /\ \A k \in 1..Len(original) :
            ~Consumed(k) =>
                /\ Verbatim(k)
                /\ Cardinality({j \in 1..Len(src) :
                                    src[j].how = "copy" /\ src[j].at = k}) = 1
        /\ \A j1, j2 \in 1..Len(src) :
            (j1 < j2 /\ src[j1].how = "copy" /\ src[j2].how = "copy")
                => CopyAt(j1) < CopyAt(j2)
        /\ \A j \in 1..Len(src) :
            src[j].how # "copy" => CHANNEL_MATCH(new_lines[j])
        /\ Len(src) = Len(new_lines)

\* C10 witness: a rewrite without migration that dropped or replaced a
\* channel: line, added one, and copied a cs: charm line.
C10_Witness ==
    /\ Done /\ ~ensure_charmhub_prefix
    /\ \E k \in 1..Len(original) : Consumed(k)
    /\ \E j \in 1..Len(src) : src[j].how = "add"
    /\ \E k \in 1..Len(original) : ANY_CHARM_MATCH(original[k]) /\ Verbatim(k)

\* the output lines after input line r in its block of the output: up to the
\* first output line that does not start with its indent
OutBlock(r) == (PosOf(st, r) + 1)..BlockEnd(new_lines, PosOf(st, r), PosOf(st, r))

\* C11 (as stated): in fixed-channel mode, for every charm: line of the input
\* that CHARM_MATCH matches with a name in charms, the output has the line
\* "<indent>channel: <channel>" at that line's indent, after the charm: line
\* and before the first following line that does not start with the indent.
C11_EveryBlockGetsChannel ==
    (Done /\ FixedMode(P)) =>
        \A r \in 1..Len(original) :
            Eligible(P, original[r]) =>
                \E j \in OutBlock(r) :
                    new_lines[j] = format_channel(original[r].ind, channel)

\* the loop is at input line i, or past the last line, with a block open
\* whose charm resolves to a channel
OpenWithChannel ==
    /\ pc = "loop" /\ indent # NoIndent
    /\ wants_channel(P) /\ get_channel(P, current_charm) # None

\* the step taken from such a state
PlacementStep ==
    LET c == format_channel(indent, get_channel(P, current_charm))
        n == Len(new_lines)
    IN IF i > Len(file_lines)
       THEN new_lines' = Append(new_lines, c)
       ELSE ~line_startswith(file_lines[i], indent) =>
                /\ Len(new_lines') = n + 2
                /\ SubSeq(new_lines', 1, n + 1) = Append(new_lines, c)
                /\ new_lines'[n + 2] \in {file_lines[i], replace_prefix(file_lines[i])}
                /\ indent' = IF Eligible(P, file_lines[i])
                             THEN file_lines[i].ind ELSE NoIndent
                /\ current_charm' = IF Eligible(P, file_lines[i])
                                    THEN file_lines[i].name ELSE None

\* C12: when an open block whose charm resolves to a channel meets a line
\* that does not start with indent, exactly one channel: line is appended
\* right before that line, and the line is then handled as with no block
\* open (it opens a block when it is an eligible charm: line); when the file
\* ends with the block open, exactly one channel: line is appended as the
\* last output line.
C12_Placement == [][OpenWithChannel => PlacementStep]_vars

\* C12 witness: a channel: line was added before an eligible charm: line that
\* ended a block and opened the next one, and another at the end of the file.
C12_Witness ==
    /\ Done
    /\ \E j \in 1..Len(src) :
        /\ src[j].how = "add" /\ src[j].at <= Len(original)
        /\ Eligible(P, original[src[j].at])
    /\ \E j \in 1..Len(src) : src[j].how = "add" /\ src[j].at = Len(original) + 1
    /\ new_lines[Len(new_lines)] = format_channel(indent, get_channel(P, current_charm))

\* the last input line before position k that opens a block, 0 when there
\* is none
LastEligibleBefore(k) ==
    LET S == {q \in 1..Len(original) : q < k /\ Eligible(P, original[q])}
    IN IF S = {} THEN 0 ELSE CHOOSE q \in S : \A q2 \in S : q2 <= q

\* C13: every channel: line the loop appends, as the replacement of a
\* channel: line or as an added one, is the indent of the charm: line that
\* opened the block which is open at that point, followed by "channel: ", the
\* channel _get_channel gives for that line's charm, and a newline.
C13_IndentFidelity ==
    \A j \in 1..Len(src) :
        src[j].how \in {"replace", "add"} =>
            LET r == LastEligibleBefore(src[j].at)
            IN /\ r # 0
               /\ src[j].ref = r
               /\ new_lines[j] =
                    ChannelLine(original[r].ind, get_channel(P, original[r].name))

\* C13 witness: in branch mode a channel: line at an indent other than the
\* empty one was replaced and another channel: line was added.
C13_Witness ==
    /\ Done /\ BranchMode(P)
    /\ \E j \in 1..Len(src) : src[j].how = "replace" /\ new_lines[j].ind > 0
    /\ \E j \in 1..Len(src) : src[j].how = "add" /\ new_lines[j].ind > 0

\* C14 (as stated): with ensure_charmhub_prefix true, every input line that
\* ANY_CHARM_MATCH matches is emitted with its prefix replaced by "ch:",
\* whether or not its name is in valid_charms, and no charm: line of the
\* output has a "cs:" prefix.
C14_AllMigrated ==
    (Done /\ ensure_charmhub_prefix) =>
        /\ \A k \in 1..Len(original) :
            ANY_CHARM_MATCH(original[k]) =>
                /\ Copied(st, k)
                /\ new_lines[PosOf(st, k)] = replace_prefix(original[k])
        /\ \A j \in 1..Len(new_lines) :
            new_lines[j].kind = "charm" => new_lines[j].prefix = CH

\* the step of the loop over input line i
GatedStep ==
    LET line == file_lines[i]
    IN IF Eligible(P, line)
       THEN indent' = line.ind /\ current_charm' = line.name
       ELSE /\ indent' \in {indent, NoIndent}
            /\ current_charm' \in {current_charm, None}
            /\ indent = NoIndent =>
                /\ Len(new_lines') = Len(new_lines) + 1
                /\ SubSeq(new_lines', 1, Len(new_lines)) = new_lines
                /\ new_lines'[Len(new_lines')].kind = line.kind

\* C15: the loop sets indent and current_charm to a line's indent and name
\* only on a line CHARM_MATCH matches whose name is a key of lp_config when
\* branches is not empty, and a member of charms when it is empty; on any
\* other line, one that only ANY_CHARM_MATCH matches included, indent and
\* current_charm stay or are reset, and with no block open the line alone is
\* appended: no channel: line is added with it.
C15_Gated == [][(pc = "loop" /\ i <= Len(file_lines)) => GatedStep]_vars

\* C15 witness: a line only ANY_CHARM_MATCH matches, with a name in
\* valid_charms, had its prefix replaced in a run that adds channels, and the
\* channel: line after it was copied and none was added.
C15_Witness ==
    /\ Done /\ ensure_charmhub_prefix /\ wants_channel(P)
    /\ \E k \in 1..Len(original) :
        /\ GenericOnly(original[k]) /\ original[k].name \in valid_charms(P)
        /\ new_lines[PosOf(st, k)].prefix = CH
        /\ k < Len(original) /\ CHANNEL_MATCH(original[k + 1])
        /\ original[k + 1].ind = original[k].ind
    /\ \A j \in 1..Len(src) : src[j].how = "copy"

\* a name file cannot be read or a config file does not parse
ConfigBad ==
    ~names_ok \/ \E k \in 1..Len(config_files) : ~config_files[k].parses

\* modify_channel has been called on no path and every bundle document
\* holds the lines it had when the run began
Untouched ==
    \A p \in DOMAIN disk : calls[p] = 0 /\ document(p) = disk0[p]

\* get_charms_list has returned and every config file has been parsed
AllLoaded ==
    /\ names_ok /\ charms = Registry
    /\ cfg_i = Len(config_files) + 1
    /\ \A k \in 1..Len(config_files) : config_files[k].parses

\* C16: in every run, modify_channel is called on no bundle document, and no
\* bundle document is changed, before the name files and every config file
\* have been loaded; when a name file cannot be read or a config file does not
\* parse, the run never reaches update_bundles and every bundle document
\* keeps its original lines.
C16_ConfigFirst ==
    /\ (~Untouched \/ pc \in ModifyPcs \cup {"update", "exit"}) => AllLoaded
    /\ ConfigBad => Untouched /\ pc \notin ModifyPcs \cup {"update", "exit"}

\* C16 witness: the second config file does not parse after the first one was
\* loaded; the run has aborted with a bundle document found that the rewrite
\* would have changed.
C16_Witness ==
    /\ pc = "aborted" /\ names_ok
    /\ cfg_i = 2 /\ Len(config_files) = 2 /\ ~config_files[2].parses
    /\ bundle_paths # <<>>
    /\ \E p \in DOMAIN disk : rewrite(P, disk0[p]) # disk0[p]
    /\ Untouched

\* the one config file of the run has been parsed into lp_config
OneParsed == Len(config_files) = 1 /\ cfg_i = 2 /\ config_files[1].parses

\* the 'channels' lists of defaults.branches, none when the key is not there
DefaultsOf(raw_config) ==
    IF "defaults" \in DOMAIN raw_config
    THEN channels_of(raw_config["defaults"]["branches"]) ELSE EmptyDict

\* entry is built from the project's own 'branches' dictionary
FromOwnBranches(project, entry) ==
    /\ DOMAIN entry = DOMAIN project["branches"]
    /\ \A b \in DOMAIN entry :
        "channels" \in DOMAIN project["branches"][b]
            => entry[b] = project["branches"][b]["channels"]

\* C17 (as stated): for every item of the projects list, the entry of its
\* charm in the result is built from the item's own branches dictionary when
\* the item has one, and is a copy of the defaults only when it has none;
\* every item of a document that has the projects key gives its charm an
\* entry; a document without the projects key gives no entry and does not end
\* the run.
C17_EntryConstruction ==
    OneParsed =>
        LET raw_config == config_files[1].raw
        IN IF "projects" \notin DOMAIN raw_config
           THEN lp_config = EmptyDict /\ pc # "aborted"
           ELSE \A k \in 1..Len(raw_config["projects"]) :
                LET project == raw_config["projects"][k]
                    last == \A m \in (k + 1)..Len(raw_config["projects"]) :
                                "charmhub" \in DOMAIN raw_config["projects"][m]
                                    => raw_config["projects"][m]["charmhub"]
                                            # project["charmhub"]
                IN "charmhub" \in DOMAIN project =>
                    /\ project["charmhub"] \in DOMAIN lp_config
                    /\ last =>
                        IF "branches" \in DOMAIN project
                        THEN FromOwnBranches(project, lp_config[project["charmhub"]])
                        ELSE ("defaults" \in DOMAIN raw_config
                                    => has_channels(raw_config["defaults"]["branches"]))
                                => lp_config[project["charmhub"]] = DefaultsOf(raw_config)

\* modify_channel has returned for path p
Returned(p) ==
    \E k \in 1..path_i :
        bundle_paths[k] = p /\ (k < path_i \/ pc \in {"update", "exit"})

\* what holds of the bundle documents at every point of a run
ReplacedOnce ==
    /\ \A p \in DOMAIN disk :
        /\ calls[p] <= 1
        /\ calls[p] = 0 => document(p) = disk0[p]
        /\ Returned(p) => document(p) = rewrite(P, disk0[p])
        /\ document(p) \in {disk0[p], rewrite(P, disk0[p])}
    /\ pc = "exit" =>
        \A p \in DOMAIN disk : calls[p] = 1 /\ Returned(p)

\* C18: every run ends; a run that ends without an error has called
\* modify_channel exactly once on every bundle document found and each holds
\* the rewrite of its original lines, the documents the rewrite leaves as
\* they are included; in a run that stops part-way, the documents
\* modify_channel has returned for hold their rewrite and the ones it was not
\* called on hold their original lines.
C18_EveryDocumentReplaced ==
    /\ []ReplacedOnce
    /\ <>(pc \in {"exit", "aborted", "crashed"})

\* C18 witness: a run over two bundle documents has ended without an error;
\* the rewrite changed one document and left the other as it was.
C18_Witness ==
    /\ pc = "exit"
    /\ Len(bundle_paths) >= 2
    /\ \E p \in DOMAIN disk : disk[p] # disk0[p]
    /\ \E p \in DOMAIN disk : disk[p] = disk0[p] /\ calls[p] = 1

\* indent and current_charm after the lines before input line i
StateConsistent ==
    /\ indent = NoIndent <=> current_charm = None
    /\ indent # NoIndent =>
        /\ current_charm \in valid_charms(P)
        /\ LET r == LastEligibleBefore(i)
           IN /\ r # 0
              /\ indent = original[r].ind
              /\ current_charm = original[r].name

\* input line i closes the open block: it is a channel: line at indent, or
\* it does not start with indent
Closes ==
    /\ pc = "loop" /\ i <= Len(file_lines) /\ indent # NoIndent
    /\ \/ CHANNEL_MATCH(file_lines[i]) /\ file_lines[i].ind = indent
       \/ ~line_startswith(file_lines[i], indent)

\* the step over a closing line that opens no block itself
ResetTogether ==
    (Closes /\ ~Eligible(P, file_lines[i])) =>
        indent' = NoIndent /\ current_charm' = None

\* C19: after every line, indent is None exactly when current_charm is None;
\* when they are not None, current_charm is in valid_charms and indent and
\* current_charm are the indent and the name of the last eligible charm: line
\* so far; a channel: line at indent, or a line that does not start with
\* indent, resets both.
C19_StateConsistent == []StateConsistent /\ [][ResetTogether]_vars

\* C19 witness: one block was closed by a line that does not start with its
\* indent and another by its channel: line, and both variables are None.
C19_Witness ==
    /\ pc = "loop" /\ indent = NoIndent /\ current_charm = None
    /\ \E j \in 1..Len(src) : src[j].how = "add"
    /\ \E j \in 1..Len(src) : src[j].how = "replace"

\* the first line of the run of lines around lines[j] that all start with
\* the indent of lines[j]
RECURSIVE BlockStart(_, _, _)
BlockStart(lines, j, b) ==
    IF b > 1 /\ line_startswith(lines[b - 1], lines[j].ind)
    THEN BlockStart(lines, j, b - 1) ELSE b

\* the output positions of the channel: lines at the indent of input line r
\* in the run of output lines around it that start with its indent
ChannelsAround(r) ==
    LET q == PosOf(st, r)
    IN {j \in BlockStart(new_lines, q, q)..BlockEnd(new_lines, q, q) :
            CHANNEL_MATCH(new_lines[j]) /\ new_lines[j].ind = original[r].ind}

\* C20 (as stated): after a fixed-channel rewrite, the lines around an
\* eligible charm: line that start with its indent hold at most one channel:
\* line at that indent; a channel: line before the charm: line is not left
\* alongside an added one.
C20_NoDuplicateChannel ==
    (Done /\ FixedMode(P)) =>
        \A r \in 1..Len(original) :
            Eligible(P, original[r]) => Cardinality(ChannelsAround(r)) <= 1

\* a channel: line has been appended for the block input line r opened: as
\* the replacement of its channel: line or as an added one
ChannelEmittedFor(r) ==
    \E j \in 1..Len(src) :
        /\ src[j].how \in {"replace", "add"}
        /\ src[j].ref = r
        /\ new_lines[j] = format_channel(original[r].ind, get_channel(P, original[r].name))

\* C21 (as stated): at every point of the loop, every eligible charm: line
\* read so far whose charm resolves to a channel either still is the one
\* indent and current_charm belong to, or has had its channel: line appended;
\* a later eligible charm: line that starts with the open block's indent does
\* not take over indent and current_charm before that.
C21_NeverAbandoned ==
    (pc \in {"loop", "open", "writelines", "rename", "done"} /\ wants_channel(P)) =>
        \A r \in 1..Len(original) :
            (r < i /\ Eligible(P, original[r]) /\ get_channel(P, original[r].name) # None) =>
                \/ opener = r /\ indent = original[r].ind /\ pc = "loop"
                \/ ChannelEmittedFor(r)

====
